---------------------------- MODULE Spec2Model ----------------------------
(***************************************************************************)
(* Model of the arbitrage matcher of src/src/arbitrage.cpp:                *)
(* build_entries / parse_key construct the two order books, and            *)
(* find_best_arbitrage repeatedly scans every (ask, bid) pair, records the *)
(* most profitable one as a Trade and decrements the matched volumes.      *)
(*                                                                         *)
(* Units.  Prices are integers in hundredths (0.96 is 96).  Fees are       *)
(* integers in units of 1/FeeScale (0.00024 is 240).  A profit_per_unit is  *)
(* therefore an integer in units of 1/(100 * FeeScale), computed exactly;  *)
(* the rounding of IEEE doubles is not modelled.  Volumes are integers     *)
(* (long in the source); the conversion of trade_qty to double in          *)
(* update_volume is exact for the volumes of this model (below 2^53).      *)
(*                                                                         *)
(* An unordered_map is modelled as the sequence of its elements in         *)
(* iteration order.  The order is unspecified by the language, so it is    *)
(* chosen nondeterministically when the map is built; it then stays fixed, *)
(* because find_best_arbitrage never inserts or erases.                    *)
(***************************************************************************)
EXTENDS Integers, Sequences, FiniteSets, TLC

\* ------------------------------------------------------------------ bounds
\* Largest initial volume of an entry.
MaxVolume == 2

\* Cap on the number of recorded trades (the loop of the source has none).
MaxTrades == 4

\* ------------------------------------------------------------- arithmetic
\* Fees are counted in units of 1/FeeScale.
FeeScale == 10 * 10 * 10 * 10 * 10 * 10

RECURSIVE Pow10(_)
Pow10(n) == IF n = 0 THEN 1 ELSE 10 * Pow10(n - 1)

\* Mutant: std::max in place of std::min.
Min_Max(a, b) == IF b < a THEN a ELSE b

\* std::min on two longs.
Min(a, b) == IF b < a THEN b ELSE a

\* std::stod on the fee text of a key.  The text is the sequence of its
\* decimal digits, the first one standing before the decimal point:
\* "0.00024" is <<0,0,0,0,2,4>>, "0.0002" is <<0,0,0,0,2>>, "0" is <<0>>;
\* at most six digits follow the point.  The result is in units of
\* 1/FeeScale.  Different texts can denote the same number ("0.01" and
\* "0.010").
RECURSIVE stod(_)
stod(text) ==
    IF text = <<>> THEN 0
    ELSE stod(SubSeq(text, 1, Len(text) - 1))
           + text[Len(text)] * Pow10(7 - Len(text))

\* A key "exchange-fee" is the pair <<exchange, fee text>>: the part before
\* the first '-' and the part after it.
parse_key(key) == <<key[1], stod(key[2])>>

\* build_entries: one Entry per raw key, stored under that key.  `order`
\* enumerates the keys of the resulting unordered_map in iteration order.
build_entries(raw, order) ==
    [i \in 1..Len(order) |->
        LET key == order[i]
            pk  == parse_key(key)
        IN  [key      |-> key,
             exchange |-> pk[1],
             fee      |-> pk[2],
             price    |-> raw[key][1],
             volume   |-> raw[key][2]]]

\* The iteration orders an unordered_map with key set S can have.
Orders(S) ==
    {o \in [1..Cardinality(S) -> S] :
        \A i, j \in 1..Cardinality(S) : o[i] = o[j] => i = j}


\* ------------------------------------------------------------------ inputs
\* Raw keys of the asks ("ex1-0", "ex1-0.0", "ex2-0.01") and of the bids
\* ("ex2-0", "ex2-0.0", "ex1-0.01").  Two keys of one venue whose fee texts
\* denote the same number are different keys of the raw map.
AskKeys == {<<"ex1", <<0>>>>, <<"ex1", <<0, 0>>>>, <<"ex2", <<0, 0, 1>>>>}
BidKeys == {<<"ex2", <<0>>>>, <<"ex2", <<0, 0>>>>, <<"ex1", <<0, 0, 1>>>>}

\* Raw prices (hundredths) and raw volumes.  The source validates neither,
\* so a negative volume is an input too.
Prices  == {96, 100}
Volumes == (-1)..MaxVolume

\* The key sets of the books: at most two entries per book.
KeySets(K) == {S \in SUBSET K : Cardinality(S) <= 2}

\* --------------------------------------------------------- find_best_arbitrage
VARIABLES
    bids,        \* the bids book, in iteration order
    asks,        \* the asks book, in iteration order
    trades,      \* std::vector<Trade> trades
    best_trade,  \* std::optional<Trade>: <<>> (nullopt) or <<trade>>
    pc,          \* "scan": top of the loop body; "check": after the two
                 \* for loops; "done": returned
    a_key,       \* history: position in asks of the pair the scan chose
    b_key,       \* history: position in bids of the pair the scan chose
    asks0,       \* history: the asks book at the call
    bids0        \* history: the bids book at the call

vars == <<bids, asks, trades, best_trade, pc, a_key, b_key, asks0, bids0>>

\* effective_proceed - effective_cost, in units of 1/(100 * FeeScale).
profit_per_unit(ask, bid) ==
    LET effective_cost    == ask.price * (FeeScale + ask.fee)
        effective_proceed == bid.price * (FeeScale - bid.fee)
    IN  effective_proceed - effective_cost

\* Mutant: the trade is sized by the ask alone.
MakeTrade_AskVolume(ask, bid) ==
    LET ppu       == profit_per_unit(ask, bid)
        trade_qty == ask.volume
    IN  [buy_exchange    |-> ask.exchange,
         sell_exchange   |-> bid.exchange,
         buy_fee         |-> ask.fee,
         sell_fee        |-> bid.fee,
         buy_price       |-> ask.price,
         sell_price      |-> bid.price,
         volume          |-> trade_qty,
         profit_per_unit |-> ppu,
         net_profit      |-> ppu * trade_qty]

\* The Trade the scan builds for a pair.
MakeTrade(ask, bid) ==
    LET ppu       == profit_per_unit(ask, bid)
        trade_qty == Min(ask.volume, bid.volume)
    IN  [buy_exchange    |-> ask.exchange,
         sell_exchange   |-> bid.exchange,
         buy_fee         |-> ask.fee,
         sell_fee        |-> bid.fee,
         buy_price       |-> ask.price,
         sell_price      |-> bid.price,
         volume          |-> trade_qty,
         profit_per_unit |-> ppu,
         net_profit      |-> ppu * trade_qty]

\* Mutant: the best profit starts below every profit instead of at 0.
ScanStart_NoFloor ==
    [best_trade |-> <<>>, best_profit_per_unit |-> -(1000 * FeeScale),
     a_key |-> 0, b_key |-> 0]

\* The locals of one pass of the while loop before the for loops.
ScanStart ==
    [best_trade |-> <<>>, best_profit_per_unit |-> 0, a_key |-> 0, b_key |-> 0]

\* Mutant: a bid with one unit left counts as exhausted.
SkipBid_OffByOne(ask, bid) == bid.volume <= 1 \/ ask.exchange = bid.exchange

\* Mutant: the same-exchange test is missing.
SkipBid_NoVenueTest(ask, bid) == bid.volume <= 0

\* The pairs the inner loop skips.
SkipBid(ask, bid) == bid.volume <= 0 \/ ask.exchange = bid.exchange

\* Mutant: a profitable pair that equals the best so far replaces it.
Better_OrTie(ppu, best) == ppu > best \/ (ppu = best /\ best > 0)

\* Mutant: the pair is compared with 0, not with the best so far.
Better_ThanZero(ppu, best) == ppu > 0

\* Mutant: a pair that only equals the best so far replaces it.
Better_OrEqual(ppu, best) == ppu >= best

\* Whether a pair replaces the best one found so far.
Better(ppu, best) == ppu > best

\* Mutant: the first profitable pair found is kept, later ones are ignored.
ScanPair_FirstProfitable(st, A, B, i, j) ==
    IF SkipBid(A[i], B[j]) \/ st.best_trade # <<>> THEN st
    ELSE IF Better(profit_per_unit(A[i], B[j]), st.best_profit_per_unit)
         THEN [best_trade           |-> <<MakeTrade(A[i], B[j])>>,
               best_profit_per_unit |-> profit_per_unit(A[i], B[j]),
               a_key                |-> i,
               b_key                |-> j]
         ELSE st

\* Body of the inner for loop for the pair (A[i], B[j]).
ScanPair(st, A, B, i, j) ==
    IF SkipBid(A[i], B[j]) THEN st
    ELSE IF Better(profit_per_unit(A[i], B[j]), st.best_profit_per_unit)
         THEN [best_trade           |-> <<MakeTrade(A[i], B[j])>>,
               best_profit_per_unit |-> profit_per_unit(A[i], B[j]),
               a_key                |-> i,
               b_key                |-> j]
         ELSE st

\* The inner for loop over the bids, from position j on.
RECURSIVE ScanBids(_, _, _, _, _)
ScanBids(st, A, B, i, j) ==
    IF j > Len(B) THEN st
    ELSE ScanBids(ScanPair(st, A, B, i, j), A, B, i, j + 1)

\* The outer for loop over the asks, from position i on.
RECURSIVE ScanAsks(_, _, _, _)
ScanAsks(st, A, B, i) ==
    IF i > Len(A) THEN st
    ELSE IF A[i].volume <= 0 THEN ScanAsks(st, A, B, i + 1)
    ELSE ScanAsks(ScanBids(st, A, B, i, 1), A, B, i + 1)

\* Mutant: the entry is looked up by its exchange alone.
RECURSIVE FirstMatch_VenueOnly(_, _, _, _, _)
FirstMatch_VenueOnly(book, exchange, fee, price, i) ==
    IF i > Len(book) THEN 0
    ELSE IF book[i].exchange = exchange
         THEN i
         ELSE FirstMatch_VenueOnly(book, exchange, fee, price, i + 1)

\* The position of the first entry of the book, from position i on, with
\* the given exchange, fee and price; 0 if there is none.
RECURSIVE FirstMatch(_, _, _, _, _)
FirstMatch(book, exchange, fee, price, i) ==
    IF i > Len(book) THEN 0
    ELSE IF /\ book[i].exchange = exchange
            /\ book[i].fee = fee
            /\ book[i].price = price
         THEN i
         ELSE FirstMatch(book, exchange, fee, price, i + 1)

\* Mutant: the break is missing, every entry that matches loses trade_qty.
update_volume_NoBreak(book, exchange, fee, price, trade_qty) ==
    [i \in 1..Len(book) |->
        IF /\ book[i].exchange = exchange
           /\ book[i].fee = fee
           /\ book[i].price = price
        THEN [book[i] EXCEPT !.volume = @ - trade_qty]
        ELSE book[i]]

\* Mutant: the quantity is added to the volume instead of subtracted.
update_volume_Add(book, exchange, fee, price, trade_qty) ==
    LET m == FirstMatch(book, exchange, fee, price, 1)
    IN  IF m = 0 THEN book
        ELSE [book EXCEPT ![m].volume = @ + trade_qty]

\* The update_volume lambda: the first entry that matches loses trade_qty.
update_volume(book, exchange, fee, price, trade_qty) ==
    LET m == FirstMatch(book, exchange, fee, price, 1)
    IN  IF m = 0 THEN book
        ELSE [book EXCEPT ![m].volume = @ - trade_qty]

\* The books of a call: built from raw maps by build_entries.
Books(K) ==
    UNION {UNION {{build_entries(raw, order) : order \in Orders(S)} :
                     raw \in [S -> Prices \X Volumes]} : S \in KeySets(K)}

Init ==
    /\ asks \in Books(AskKeys)
    /\ bids \in Books(BidKeys)
    /\ asks0 = asks
    /\ bids0 = bids
    /\ trades = <<>>
    /\ best_trade = <<>>
    /\ pc = "scan"
    /\ a_key = 0
    /\ b_key = 0

\* Lines 63-95: the two for loops of one pass.
Scan ==
    /\ pc = "scan"
    /\ LET st == ScanAsks(ScanStart, asks, bids, 1)
       IN  /\ best_trade' = st.best_trade
           /\ a_key' = st.a_key
           /\ b_key' = st.b_key
    /\ pc' = "check"
    /\ UNCHANGED <<bids, asks, trades, asks0, bids0>>

\* Lines 98-99: no profitable trade found, return.
Break ==
    /\ pc = "check"
    /\ best_trade = <<>>
    /\ pc' = "done"
    /\ UNCHANGED <<bids, asks, trades, best_trade, a_key, b_key, asks0, bids0>>

\* Lines 102-120: record the trade and decrement the matched entries.
Execute ==
    /\ pc = "check"
    /\ best_trade # <<>>
    /\ Len(trades) < MaxTrades
    /\ LET t == best_trade[1]
       IN  /\ trades' = Append(trades, t)
           /\ asks' = update_volume(asks, t.buy_exchange, t.buy_fee,
                                    t.buy_price, t.volume)
           /\ bids' = update_volume(bids, t.sell_exchange, t.sell_fee,
                                    t.sell_price, t.volume)
    /\ pc' = "scan"
    /\ UNCHANGED <<best_trade, a_key, b_key, asks0, bids0>>

Next == Scan \/ Break \/ Execute

Spec == Init /\ [][Next]_vars

TypeOK ==
    /\ pc \in {"scan", "check", "done"}
    /\ Len(best_trade) <= 1
    /\ Len(trades) <= MaxTrades

\* ------------------------------------------------------- shared vocabulary
\* A pair the scan considers: both volumes positive, different venues.
Eligible(ask, bid) ==
    ask.volume > 0 /\ bid.volume > 0 /\ ask.exchange # bid.exchange

\* The books A, B hold an eligible pair with a positive profit.
Opportunity(A, B) ==
    \E i \in 1..Len(A), j \in 1..Len(B) :
        Eligible(A[i], B[j]) /\ profit_per_unit(A[i], B[j]) > 0

\* find_best_arbitrage has returned.
Returned == pc = "done"

\* ---------------------------------------------------------------------- C1
\* C1 (no self-arbitrage): every recorded trade buys on one venue and sells
\* on a different one.
NoSelfArbitrage ==
    \A n \in 1..Len(trades) :
        trades[n].buy_exchange # trades[n].sell_exchange

\* A call has returned a trade although the books also held a same-venue
\* pair with positive volumes and a positive profit.
NoSelfArbitrageWitness ==
    /\ Returned
    /\ Len(trades) >= 1
    /\ \E i \in 1..Len(asks0), j \in 1..Len(bids0) :
          /\ asks0[i].exchange = bids0[j].exchange
          /\ asks0[i].volume > 0 /\ bids0[j].volume > 0
          /\ profit_per_unit(asks0[i], bids0[j]) > 0

\* ---------------------------------------------------------------------- C2
\* C2 (profitability): every recorded trade has profit_per_unit > 0, and
\* that value is sell_price * (1 - sell_fee) - buy_price * (1 + buy_fee).
Profitability ==
    \A n \in 1..Len(trades) :
        /\ trades[n].profit_per_unit > 0
        /\ trades[n].profit_per_unit =
              trades[n].sell_price * (FeeScale - trades[n].sell_fee)
                - trades[n].buy_price * (FeeScale + trades[n].buy_fee)

\* A call has returned a trade although the books also held an eligible
\* pair whose profit is exactly 0 and one whose profit is negative.
ProfitabilityWitness ==
    /\ Returned
    /\ Len(trades) >= 1
    /\ \E i \in 1..Len(asks0), j \in 1..Len(bids0) :
          Eligible(asks0[i], bids0[j]) /\ profit_per_unit(asks0[i], bids0[j]) = 0
    /\ \E i \in 1..Len(asks0), j \in 1..Len(bids0) :
          Eligible(asks0[i], bids0[j]) /\ profit_per_unit(asks0[i], bids0[j]) < 0

\* ---------------------------------------------------------------------- C3
\* Every initial volume of both books is non-negative.
InitialVolumesNonNegative ==
    /\ \A i \in 1..Len(asks0) : asks0[i].volume >= 0
    /\ \A j \in 1..Len(bids0) : bids0[j].volume >= 0

\* The quantity the first n trades bought from the identity of ask entry e.
RECURSIVE ConsumedAsk(_, _)
ConsumedAsk(e, n) ==
    IF n = 0 THEN 0
    ELSE ConsumedAsk(e, n - 1)
           + (IF /\ trades[n].buy_exchange = e.exchange
                 /\ trades[n].buy_fee = e.fee
                 /\ trades[n].buy_price = e.price
              THEN trades[n].volume ELSE 0)

\* The quantity the first n trades sold to the identity of bid entry e.
RECURSIVE ConsumedBid(_, _)
ConsumedBid(e, n) ==
    IF n = 0 THEN 0
    ELSE ConsumedBid(e, n - 1)
           + (IF /\ trades[n].sell_exchange = e.exchange
                 /\ trades[n].sell_fee = e.fee
                 /\ trades[n].sell_price = e.price
              THEN trades[n].volume ELSE 0)

\* C3 (volume conservation): when every initial volume is non-negative,
\* then at every point of the run, for each entry of each book, the trades
\* on its (venue, fee, price) identity consumed no more than its original
\* volume, its volume is the original volume minus that sum, and its volume
\* is not negative.
VolumeConservation ==
    InitialVolumesNonNegative =>
        /\ \A i \in 1..Len(asks) :
              /\ ConsumedAsk(asks0[i], Len(trades)) <= asks0[i].volume
              /\ asks[i].volume
                    = asks0[i].volume - ConsumedAsk(asks0[i], Len(trades))
              /\ asks[i].volume >= 0
        /\ \A j \in 1..Len(bids) :
              /\ ConsumedBid(bids0[j], Len(trades)) <= bids0[j].volume
              /\ bids[j].volume
                    = bids0[j].volume - ConsumedBid(bids0[j], Len(trades))
              /\ bids[j].volume >= 0

\* ---------------------------------------------------------------------- C4
\* The sum of the volumes of a book, from position i on.
RECURSIVE TotalVolume(_, _)
TotalVolume(book, i) ==
    IF i > Len(book) THEN 0
    ELSE book[i].volume + TotalVolume(book, i + 1)

\* C4 (termination bound), on the books whose initial volumes are all
\* non-negative: the trade list never grows beyond the total initial volume
\* of both books, so the loop stops after at most that many passes.
TerminationBound ==
    InitialVolumesNonNegative =>
        Len(trades) <= TotalVolume(asks0, 1) + TotalVolume(bids0, 1)

\* ---------------------------------------------------------------------- C5
\* C5 (greedy best-pair selection): whenever a trade is recorded, its
\* profit_per_unit is the greatest profit_per_unit of the eligible pairs of
\* the books as they stood immediately before the trade: some eligible pair
\* has it and no eligible pair exceeds it.
GreedyBestPair ==
    [][trades' # trades =>
          LET t == trades'[Len(trades')]
          IN  /\ \E i \in 1..Len(asks), j \in 1..Len(bids) :
                    /\ Eligible(asks[i], bids[j])
                    /\ profit_per_unit(asks[i], bids[j]) = t.profit_per_unit
              /\ \A i \in 1..Len(asks), j \in 1..Len(bids) :
                    Eligible(asks[i], bids[j]) =>
                        profit_per_unit(asks[i], bids[j]) <= t.profit_per_unit
      ]_vars

\* A trade was recorded from books that held two eligible profitable pairs
\* of different profit, the lesser one enumerated first.
GreedyBestPairWitness ==
    /\ Len(trades) >= 1
    /\ \E i1, i2 \in 1..Len(asks0), j1, j2 \in 1..Len(bids0) :
          /\ Eligible(asks0[i1], bids0[j1])
          /\ Eligible(asks0[i2], bids0[j2])
          /\ (i1 < i2 \/ (i1 = i2 /\ j1 < j2))
          /\ 0 < profit_per_unit(asks0[i1], bids0[j1])
          /\ profit_per_unit(asks0[i1], bids0[j1])
                < profit_per_unit(asks0[i2], bids0[j2])
          /\ trades[1].profit_per_unit = profit_per_unit(asks0[i2], bids0[j2])

\* ---------------------------------------------------------------------- C6
\* C6 (exhaustive matching at return): after the scan the loop stops exactly
\* when the books hold no eligible pair with a positive profit, and at
\* return the books hold none.
ExhaustiveAtReturn ==
    /\ pc = "check" => (best_trade = <<>> <=> ~Opportunity(asks, bids))
    /\ Returned => ~Opportunity(asks, bids)

\* A call returned after at least one trade, leaving an eligible pair that
\* is not profitable.
ExhaustiveAtReturnWitness ==
    /\ Returned
    /\ Len(trades) >= 1
    /\ \E i \in 1..Len(asks), j \in 1..Len(bids) : Eligible(asks[i], bids[j])

\* ---------------------------------------------------------------------- C7
\* C7 (non-increasing profit sequence): each trade's profit_per_unit is at
\* most that of the trade before it.
NonIncreasingProfit ==
    \A n \in 1..(Len(trades) - 1) :
        trades[n + 1].profit_per_unit <= trades[n].profit_per_unit

\* A call returned trades whose profit strictly decreased at some point.
NonIncreasingProfitWitness ==
    /\ Returned
    /\ \E n \in 1..(Len(trades) - 1) :
          trades[n + 1].profit_per_unit < trades[n].profit_per_unit

\* ---------------------------------------------------------------------- C8
\* C8 (trade sizing and contents): whenever a trade is recorded, its volume
\* is the lesser of the volumes the chosen ask and the chosen bid had at
\* that moment, its net_profit is profit_per_unit times that volume, and its
\* buy side / sell side venue, fee and price are those of the chosen ask /
\* bid.
TradeContents ==
    [][trades' # trades =>
          LET t   == trades'[Len(trades')]
              ask == asks[a_key]
              bid == bids[b_key]
          IN  /\ t.volume = IF ask.volume <= bid.volume
                            THEN ask.volume ELSE bid.volume
              /\ t.net_profit = t.profit_per_unit * t.volume
              /\ t.buy_exchange = ask.exchange
              /\ t.buy_fee = ask.fee
              /\ t.buy_price = ask.price
              /\ t.sell_exchange = bid.exchange
              /\ t.sell_fee = bid.fee
              /\ t.sell_price = bid.price
      ]_vars

\* Two trades were recorded, the first of more than one unit, the second
\* sized by its bid: the chosen bid is exhausted, the chosen ask is not.
TradeContentsWitness ==
    /\ pc = "scan"
    /\ Len(trades) = 2
    /\ trades[1].volume >= 2
    /\ trades[1].net_profit = trades[1].profit_per_unit * trades[1].volume
    /\ asks[a_key].volume > 0
    /\ bids[b_key].volume = 0
    /\ trades[2].volume < asks0[a_key].volume

\* ---------------------------------------------------------------------- C9
\* C9 (a no-opportunity input is a no-op): when the books of the call hold
\* no eligible pair with a positive profit, the call returns no trade and
\* both books are, entry for entry, as they were.
NoOpportunityNoOp ==
    ~Opportunity(asks0, bids0) =>
        /\ trades = <<>>
        /\ asks = asks0
        /\ bids = bids0
        /\ pc = "check" => best_trade = <<>>

\* A call returned on books that held eligible pairs, none profitable.
NoOpportunityNoOpWitness ==
    /\ Returned
    /\ ~Opportunity(asks0, bids0)
    /\ trades = <<>>
    /\ \E i \in 1..Len(asks0), j \in 1..Len(bids0) :
          Eligible(asks0[i], bids0[j]) /\ profit_per_unit(asks0[i], bids0[j]) < 0

\* --------------------------------------------------------------------- C10
\* The scenario of the sample data: the ask "ex1-0.00024" at 0.96 with 50
\* units and the bid "ex3-0.0002" at 1.00 with 5 units.
ScenarioAskKey == <<"ex1", <<0, 0, 0, 0, 2, 4>>>>
ScenarioBidKey == <<"ex3", <<0, 0, 0, 0, 2>>>>
ScenarioAskRaw == <<96, 50>>
ScenarioBidRaw == <<100, 5>>

\* The other raw keys of the scenario's books: asks "ex1-0.000240", "ex5-0",
\* "ex2-0.0005"; bids "ex3-0.00020", "ex4-0.00025", "ex2-0.0005".
ScenarioOtherAskKeys ==
    {<<"ex1", <<0, 0, 0, 0, 2, 4, 0>>>>, <<"ex5", <<0>>>>,
     <<"ex2", <<0, 0, 0, 0, 5>>>>}
ScenarioOtherBidKeys ==
    {<<"ex3", <<0, 0, 0, 0, 2, 0>>>>, <<"ex4", <<0, 0, 0, 0, 2, 5>>>>,
     <<"ex2", <<0, 0, 0, 0, 5>>>>}
ScenarioOtherAsks == {96, 101} \X {0, 3}
ScenarioOtherBids == {98, 100, 102} \X {0, 4}

\* The books that hold the scenario's entry and at most one other entry.
ScenarioBooks(key, rawval, others, vals) ==
    {build_entries(key :> rawval, <<key>>)}
    \cup UNION {UNION {{build_entries(key :> rawval @@ k :> v, order) :
                          order \in Orders({key, k})} : v \in vals} :
                   k \in others}

InitScenario ==
    /\ asks \in ScenarioBooks(ScenarioAskKey, ScenarioAskRaw,
                              ScenarioOtherAskKeys, ScenarioOtherAsks)
    /\ bids \in ScenarioBooks(ScenarioBidKey, ScenarioBidRaw,
                              ScenarioOtherBidKeys, ScenarioOtherBids)
    /\ asks0 = asks
    /\ bids0 = bids
    /\ trades = <<>>
    /\ best_trade = <<>>
    /\ pc = "scan"
    /\ a_key = 0
    /\ b_key = 0

SpecScenario == InitScenario /\ [][Next]_vars

\* The position in the book of the entry stored under the key.
PosOf(book, key) == CHOOSE i \in 1..Len(book) : book[i].key = key

\* The scenario's pair is the best of the call's books: every other eligible
\* pair has a smaller profit_per_unit.
ScenarioIsBest ==
    LET a == PosOf(asks0, ScenarioAskKey)
        b == PosOf(bids0, ScenarioBidKey)
    IN  \A i \in 1..Len(asks0), j \in 1..Len(bids0) :
            (Eligible(asks0[i], bids0[j]) /\ <<i, j>> # <<a, b>>) =>
                profit_per_unit(asks0[i], bids0[j])
                    < profit_per_unit(asks0[a], bids0[b])

\* The trade of the scenario's pair.
IsScenarioTrade(t) ==
    /\ t.buy_exchange = "ex1" /\ t.buy_fee = 240 /\ t.buy_price = 96
    /\ t.sell_exchange = "ex3" /\ t.sell_fee = 200 /\ t.sell_price = 100
    /\ t.volume = 5

\* C10 (concrete scenario): when the scenario's pair is the best pair of the
\* books, the first pass selects it, the first trade is that pair with
\* quantity 5, and right after that trade the ask ex1 has 45 units left and
\* the bid ex3 has none.
ScenarioFirstTrade ==
    ScenarioIsBest =>
        /\ (pc = "check" /\ trades = <<>>) =>
              best_trade # <<>> /\ IsScenarioTrade(best_trade[1])
        /\ Len(trades) >= 1 => IsScenarioTrade(trades[1])
        /\ (pc = "scan" /\ Len(trades) = 1) =>
              /\ asks[PosOf(asks, ScenarioAskKey)].volume = 45
              /\ bids[PosOf(bids, ScenarioBidKey)].volume = 0

\* --------------------------------------------------------------------- C11
\* C11 (execution hits the chosen entries only): whenever a trade is
\* recorded, the asks book changes only at the ask the scan chose and the
\* bids book only at the bid the scan chose, each losing exactly the trade's
\* quantity; every other entry of both books is unchanged.
ExecutionHitsChosen ==
    [][trades' # trades =>
          LET qty == trades'[Len(trades')].volume
          IN  /\ asks' = [asks EXCEPT ![a_key].volume = @ - qty]
              /\ bids' = [bids EXCEPT ![b_key].volume = @ - qty]
      ]_vars

\* --------------------------------------------------------------------- C12
\* C12 (quote immutability and monotone volume): no step adds or removes an
\* entry of either book or changes an entry's key, venue, fee or price, and
\* no step raises an entry's volume.
SameQuotes(book, book2) ==
    /\ Len(book2) = Len(book)
    /\ \A i \in 1..Len(book) :
          /\ book2[i].key = book[i].key
          /\ book2[i].exchange = book[i].exchange
          /\ book2[i].fee = book[i].fee
          /\ book2[i].price = book[i].price
          /\ book2[i].volume <= book[i].volume

QuotesImmutable ==
    [][SameQuotes(asks, asks') /\ SameQuotes(bids, bids')]_vars

\* A call returned after two trades that lowered volumes in both books, and
\* every entry still has the key, venue, fee and price it had at the call.
QuotesImmutableWitness ==
    /\ Returned
    /\ Len(trades) >= 2
    /\ SameQuotes(asks0, asks)
    /\ SameQuotes(bids0, bids)
    /\ \E i \in 1..Len(asks) : asks[i].volume < asks0[i].volume
    /\ \E j \in 1..Len(bids) : bids[j].volume < bids0[j].volume

\* --------------------------------------------------------------------- C13
\* The number of entries of a book, from position i on, whose volume is
\* positive.
RECURSIVE PositiveEntries(_, _)
PositiveEntries(book, i) ==
    IF i > Len(book) THEN 0
    ELSE (IF book[i].volume > 0 THEN 1 ELSE 0) + PositiveEntries(book, i + 1)

\* C13 (each trade exhausts an entry): right after a trade the chosen ask or
\* the chosen bid has volume exactly 0, and the number of trades is at most
\* the number of entries of both books whose initial volume is positive.
EachTradeExhausts ==
    /\ (pc = "scan" /\ Len(trades) >= 1) =>
          (asks[a_key].volume = 0 \/ bids[b_key].volume = 0)
    /\ Len(trades) <= PositiveEntries(asks0, 1) + PositiveEntries(bids0, 1)

\* --------------------------------------------------------------------- C14
\* C14 (first-seen wins ties): the pair a scan selects precedes, in the
\* enumeration order (asks outer, bids inner), every other eligible pair
\* with the same profit_per_unit.
FirstSeenWinsTies ==
    (pc = "check" /\ best_trade # <<>>) =>
        \A i \in 1..Len(asks), j \in 1..Len(bids) :
            (/\ Eligible(asks[i], bids[j])
             /\ profit_per_unit(asks[i], bids[j])
                   = best_trade[1].profit_per_unit) =>
                (a_key < i \/ (a_key = i /\ b_key <= j))

\* A scan selected a pair although a later ask and a later bid each form an
\* eligible pair with the same, greatest profit_per_unit.
FirstSeenWinsTiesWitness ==
    /\ pc = "check"
    /\ best_trade # <<>>
    /\ \E j \in 1..Len(bids) :
          /\ j > b_key
          /\ Eligible(asks[a_key], bids[j])
          /\ profit_per_unit(asks[a_key], bids[j])
                = best_trade[1].profit_per_unit
    /\ \E i \in 1..Len(asks) :
          /\ i > a_key
          /\ Eligible(asks[i], bids[b_key])
          /\ profit_per_unit(asks[i], bids[b_key])
                = best_trade[1].profit_per_unit

\* --------------------------------------------------------------------- C15
\* C15 (only live entries trade, in positive amounts): every trade has
\* quantity >= 1, the pair a scan selects has positive volumes on both
\* sides, and an entry whose initial volume is 0 or negative is never
\* selected and keeps its volume.
OnlyLiveEntriesTrade ==
    /\ \A n \in 1..Len(trades) : trades[n].volume >= 1
    /\ (pc = "check" /\ best_trade # <<>>) =>
          /\ asks[a_key].volume > 0 /\ bids[b_key].volume > 0
          /\ asks0[a_key].volume > 0 /\ bids0[b_key].volume > 0
    /\ \A i \in 1..Len(asks) :
          asks0[i].volume <= 0 => asks[i].volume = asks0[i].volume
    /\ \A j \in 1..Len(bids) :
          bids0[j].volume <= 0 => bids[j].volume = bids0[j].volume

\* --------------------------------------------------------------------- C17
\* The sum of the quantities of the first n trades.
RECURSIVE TradedQuantity(_)
TradedQuantity(n) ==
    IF n = 0 THEN 0 ELSE TradedQuantity(n - 1) + trades[n].volume

SampleKey1 == <<"ex1", <<0, 0, 0, 0, 2, 4>>>>
SampleKey2 == <<"ex2", <<0, 0, 0, 0, 5>>>>
SampleKey3 == <<"ex3", <<0, 0, 0, 0, 2>>>>
SampleKey4 == <<"ex4", <<0, 0, 0, 0, 2, 5>>>>
SampleKey5 == <<"ex5", <<0>>>>
SampleKeys == {SampleKey1, SampleKey2, SampleKey3, SampleKey4, SampleKey5}

\* raw_bids and raw_asks of main.
raw_bids ==
    SampleKey1 :> <<95, 10>> @@ SampleKey2 :> <<98, 10>>
    @@ SampleKey3 :> <<100, 5>> @@ SampleKey4 :> <<102, 4>>
    @@ SampleKey5 :> <<94, 11>>
raw_asks ==
    SampleKey1 :> <<96, 50>> @@ SampleKey2 :> <<103, 8>>
    @@ SampleKey3 :> <<101, 2>> @@ SampleKey4 :> <<104, 5>>
    @@ SampleKey5 :> <<96, 3>>

\* main up to the call of find_best_arbitrage: both books built from the
\* hardcoded maps, each in any iteration order.
InitSample ==
    /\ asks \in {build_entries(raw_asks, order) : order \in Orders(SampleKeys)}
    /\ bids \in {build_entries(raw_bids, order) : order \in Orders(SampleKeys)}
    /\ asks0 = asks
    /\ bids0 = bids
    /\ trades = <<>>
    /\ best_trade = <<>>
    /\ pc = "scan"
    /\ a_key = 0
    /\ b_key = 0

SpecSample == InitSample /\ [][Next]_vars

\* The venues and quantities of the four trades, in order.
SampleTrades ==
    << <<"ex5", "ex4", 3>>, <<"ex1", "ex4", 1>>,
       <<"ex1", "ex3", 5>>, <<"ex1", "ex2", 10>> >>

\* The volume of the entry stored under the key.
VolumeAt(book, key) == book[PosOf(book, key)].volume

\* C18 (sample-data run): on the books of main the recorded trades are, in
\* order, buy ex5 / sell ex4 x3, buy ex1 / sell ex4 x1, buy ex1 / sell ex3
\* x5, buy ex1 / sell ex2 x10; each of the first four scans finds a trade,
\* the fifth finds none, and at return exactly these four trades are
\* recorded, the asks hold ex1 34, ex2 8, ex3 2, ex4 5, ex5 0 and the bids
\* hold ex1 10, ex2 0, ex3 0, ex4 0, ex5 11.
SampleRun ==
    /\ Len(trades) <= Len(SampleTrades)
    /\ \A n \in 1..Len(trades) :
          /\ trades[n].buy_exchange = SampleTrades[n][1]
          /\ trades[n].sell_exchange = SampleTrades[n][2]
          /\ trades[n].volume = SampleTrades[n][3]
    /\ pc = "check" => (best_trade = <<>> <=> Len(trades) = Len(SampleTrades))
    /\ Returned =>
          /\ Len(trades) = Len(SampleTrades)
          /\ VolumeAt(asks, SampleKey1) = 34
          /\ VolumeAt(asks, SampleKey2) = 8
          /\ VolumeAt(asks, SampleKey3) = 2
          /\ VolumeAt(asks, SampleKey4) = 5
          /\ VolumeAt(asks, SampleKey5) = 0
          /\ VolumeAt(bids, SampleKey1) = 10
          /\ VolumeAt(bids, SampleKey2) = 0
          /\ VolumeAt(bids, SampleKey3) = 0
          /\ VolumeAt(bids, SampleKey4) = 0
          /\ VolumeAt(bids, SampleKey5) = 11

\* The call on main's books has returned with four trades.
SampleRunWitness ==
    /\ Returned
    /\ Len(trades) = 4
    /\ asks0 = build_entries(raw_asks, [i \in 1..5 |-> asks0[i].key])
    /\ bids0 = build_entries(raw_bids, [i \in 1..5 |-> bids0[i].key])

\* --------------------------------------------------------------------- C16
\* find_best_arbitrage as a function of the two books: the passes of the
\* while loop from books A, B with trades T recorded so far.  `fuel` bounds
\* the number of further trades; returned is FALSE when it runs out.
RECURSIVE find_best_arbitrage(_, _, _, _)
find_best_arbitrage(A, B, T, fuel) ==
    LET st == ScanAsks(ScanStart, A, B, 1)
    IN  IF st.best_trade = <<>>
        THEN [returned |-> TRUE, trades |-> T, asks |-> A, bids |-> B]
        ELSE IF fuel = 0
        THEN [returned |-> FALSE, trades |-> T, asks |-> A, bids |-> B]
        ELSE LET t == st.best_trade[1]
             IN  find_best_arbitrage(
                     update_volume(A, t.buy_exchange, t.buy_fee,
                                   t.buy_price, t.volume),
                     update_volume(B, t.sell_exchange, t.sell_fee,
                                   t.sell_price, t.volume),
                     Append(T, t), fuel - 1)

\* The same map in every iteration order.
Reorderings(book) ==
    {[i \in 1..Len(book) |-> book[o[i]]] : o \in Orders(1..Len(book))}

\* No two different cross-venue (ask, bid) pairs of the books have the same
\* profit_per_unit.
NoTies(A, B) ==
    \A i, k \in 1..Len(A), j, l \in 1..Len(B) :
        (/\ <<i, j>> # <<k, l>>
         /\ A[i].exchange # B[j].exchange
         /\ A[k].exchange # B[l].exchange) =>
            profit_per_unit(A[i], B[j]) # profit_per_unit(A[k], B[l])

\* The two books hold the same volume under every key.
SameVolumes(book, book2) ==
    /\ Len(book) = Len(book2)
    /\ \A i \in 1..Len(book) : VolumeAt(book2, book[i].key) = book[i].volume

\* C16 (enumeration-order independence without ties): when no two
\* cross-venue pairs of the input have equal profit_per_unit, a run on the
\* same maps in any other iteration order returns the same trade sequence
\* and leaves the same volume under every key as the run that returned.
OrderIndependent ==
    (Returned /\ NoTies(asks0, bids0)) =>
        \A A \in Reorderings(asks0), B \in Reorderings(bids0) :
            LET r == find_best_arbitrage(A, B, <<>>, MaxTrades)
            IN  /\ r.returned
                /\ r.trades = trades
                /\ SameVolumes(r.asks, asks)
                /\ SameVolumes(r.bids, bids)

\* A call on two-entry books without ties returned two trades of different
\* profit, the less profitable pair being enumerated first.
OrderIndependentWitness ==
    /\ Returned
    /\ NoTies(asks0, bids0)
    /\ Len(asks0) = 2 /\ Len(bids0) = 2
    /\ Len(trades) = 2
    /\ trades[1].buy_exchange = asks0[2].exchange
    /\ trades[2].buy_exchange = asks0[1].exchange

=============================================================================
